---------------------------- MODULE Spec2Model ----------------------------
(***************************************************************************)
(* Turn orchestration and state broadcast of server/main.go: the game loop *)
(* (playGame, makeMove, saveGameState), the buffered gameStateChannel and  *)
(* the SSE observer tasks (handleSSEGameState).                            *)
(*                                                                         *)
(* The rules oracle (notnil/chess), the two move providers and the SQLite  *)
(* store are external: their answers are drawn nondeterministically from   *)
(* small sets.  Variables marked "history" record what happened and are    *)
(* never read by the modelled code.                                        *)
(***************************************************************************)
EXTENDS Integers, Sequences, FiniteSets, TLC

\* ------------------------------------------------------------- bounds ---
\* The oracle ends every game after at most MaxMoves applied moves.
MaxMoves == 2
\* Number of games the loop starts before the model stops it.
MaxGames == 2
\* Capacity of gameStateChannel.  The program's value is 100
\* (make(chan *GameState, 100)); the model scales it down so that a full
\* backlog is reached within MaxGames games of MaxMoves moves.
ChanCap == 2
\* Number of sends the game loop makes while observers are followed.
MaxSends == 3

\* ---------------------------------------------------------- constants ---
OneMoreAttempt == 3 + 1
\* for attempts := 0; attempts < 3; attempts++
MaxAttempts == 3

players == <<"openai", "anthropic">>

Observers == {"A", "B"}

\* notnil/chess Outcome strings
NoOutcome == "*"
WhiteWon == "1-0"
BlackWon == "0-1"
Draw == "1/2-1/2"

\* Move texts a provider may answer with.  In every position the oracle
\* accepts one of them (White's "e4", Black's "e5") and rejects the others.
MoveTexts == {"e4", "e5", "z9"}

\* --------------------------------------------------------------- state ---
VARIABLES
    pc,                \* position of the game loop task
    playerIndex,       \* playGame local
    moveCount,         \* playGame local
    currentPlayer,     \* playGame local
    game,              \* the chess.Game: moves applied and outcome
    moveHistory,       \* global
    lastMove,          \* global
    attempts,          \* makeMove local
    lastInvalidMove,   \* makeMove local
    rows,              \* table game_states
    gameStateChannel,  \* buffered channel, FIFO
    obs,               \* the SSE observer tasks
    pubLog,            \* history: every non-blocking send, in order
    gameNo,            \* history: number of the game being played
    appliedBy,         \* history: who applied each move of this game
    lastAcq,           \* history: the previous makeMove call of this game
    turnStart          \* history: the loop's state when makeMove was called

vars == <<pc, playerIndex, moveCount, currentPlayer, game, moveHistory,
          lastMove, attempts, lastInvalidMove, rows, gameStateChannel, obs,
          pubLog, gameNo, appliedBy, lastAcq, turnStart>>

loopVars == <<pc, playerIndex, moveCount, currentPlayer, game, moveHistory,
              lastMove, attempts, lastInvalidMove, rows, pubLog, gameNo,
              appliedBy, lastAcq, turnStart>>

\* ------------------------------------------------------- rules oracle ---
NewGame == [moves |-> <<>>, outcome |-> NoOutcome]

\* game.FEN(): the position, identified by side to move and the moves
\* that led to it.
FEN(g) == [side |-> IF Len(g.moves) % 2 = 0 THEN "w" ELSE "b",
           placed |-> g.moves]

\* game.MoveStr(move) succeeds exactly for a move that is legal for the
\* side to move.
Accepts(g, move) == move = (IF Len(g.moves) % 2 = 0 THEN "e4" ELSE "e5")

\* Outcomes the oracle may report after the side to move has moved: still
\* in progress or mate by the mover; the move that brings a game to
\* MaxMoves moves ends it, by mate or as a draw.
OutcomesAfter(g) ==
    LET mover == IF Len(g.moves) % 2 = 0 THEN WhiteWon ELSE BlackWon
    IN  IF Len(g.moves) + 1 >= MaxMoves
        THEN {mover, Draw}
        ELSE {NoOutcome, mover}

MoveStr(g, move, out) == [moves |-> Append(g.moves, move), outcome |-> out]

\* ------------------------------------------------------------ helpers ---
RECURSIVE Join(_, _)
\* strings.Join(elems, sep)
Join(elems, sep) ==
    IF elems = <<>> THEN ""
    ELSE IF Len(elems) = 1 THEN elems[1]
    ELSE elems[1] \o sep \o Join(Tail(elems), sep)

\* &GameState{...}: ID and CreatedAt aside, the fields the code fills in.
\* ID is never assigned and keeps Go's zero value.  seq and gameNo are
\* history fields: the index of the send that carries the snapshot and
\* the game it was built in.
GameState(fen, move, player, history, outcome) ==
    [ID |-> 0, FEN |-> fen, LastMove |-> move, LastPlayer |-> player,
     MoveHistory |-> history, GameOutcome |-> outcome,
     seq |-> Len(pubLog) + 1, gameNo |-> gameNo]

\* select { case gameStateChannel <- s: default: }: is the send taken?
Enqueued(ch) == Len(ch) < ChanCap

\* select { case gameStateChannel <- s: default: }: the channel after it.
Send(ch, s) == IF Enqueued(ch) THEN Append(ch, s) ELSE ch

SendBlocks(ch) == Len(ch) < ChanCap
\* The select around a send has a default case: it is always ready.
SendReady(ch) == TRUE

\* playerIndex = (playerIndex + 1) % 2
NextPlayerIndex(i) == (i + 1) % 2

ErrContinueIndexMutant(i) == (i + 1) % 2
\* `continue` after a makeMove error: playerIndex is left alone.
ErrContinueIndex(i) == i

KeepHistory == moveHistory
\* initGame: moveHistory = []string{}
EmptyHistory == <<>>

DropMove(history, move) == history
\* moveHistory = append(moveHistory, move)
AppendMove(history, move) == Append(history, move)

Back(ch) == ch[Len(ch)]
\* <-gameStateChannel: the value received, the oldest one queued.
Front(ch) == Head(ch)

Peeked(ch) == ch
\* <-gameStateChannel: the channel once the value has been received.
Rest(ch) == Tail(ch)

\* getMove(player, fen, attempts > 0, lastInvalidMove): the arguments of
\* the call the attempts loop is about to make.
Request ==
    [player |-> currentPlayer, fen |-> FEN(game), isRetry |-> attempts > 0,
     lastInvalidMove |-> lastInvalidMove]

\* retryMessage of getOpenAIMove and getAnthropicMove: the move text the
\* prompt calls invalid, if it calls any.
RetryMessage(req) ==
    IF req.isRetry THEN <<"previous move invalid", req.lastInvalidMove>>
    ELSE <<>>

\* The process runs until a goroutine panics.
Alive == pc # "panic"

\* One non-blocking send of snapshot s, recorded in pubLog.
Publish(s) ==
    /\ SendReady(gameStateChannel)
    /\ gameStateChannel' = Send(gameStateChannel, s)
    /\ pubLog' = Append(pubLog, [snap |-> s, enq |-> Enqueued(gameStateChannel)])

\* ---------------------------------------------------------------- Init ---
Init ==
    /\ pc = "loop"
    /\ playerIndex = 0
    /\ moveCount = 0
    /\ currentPlayer = ""
    /\ game = NewGame
    /\ moveHistory = <<>>
    /\ lastMove = ""
    /\ attempts = 0
    /\ lastInvalidMove = ""
    /\ rows = <<>>
    /\ gameStateChannel = <<>>
    /\ obs = [o \in Observers |-> [status |-> "none", attachedAt |-> 0,
                                   delivered |-> <<>>, lost |-> <<>>]]
    /\ pubLog = <<>>
    /\ gameNo = 1
    /\ appliedBy = <<>>
    /\ lastAcq = [slot |-> "", result |-> "none"]
    /\ turnStart = [game |-> NewGame, moveHistory |-> <<>>, lastMove |-> "",
                    rows |-> 0, sends |-> 0]

\* ------------------------------------------------------ the game loop ---
\* for game.Outcome() == chess.NoOutcome { currentPlayer := ...; makeMove(
StartTurn ==
    /\ pc = "loop"
    /\ game.outcome = NoOutcome
    /\ currentPlayer' = players[playerIndex + 1]
    /\ attempts' = 0
    /\ lastInvalidMove' = ""
    /\ pc' = "getMove"
    /\ turnStart' = [game |-> game, moveHistory |-> moveHistory,
                     lastMove |-> lastMove, rows |-> Len(rows),
                     sends |-> Len(pubLog)]
    /\ UNCHANGED <<playerIndex, moveCount, game, moveHistory, lastMove, rows,
                   gameStateChannel, obs, pubLog, gameNo, appliedBy, lastAcq>>

\* getMove returns an error: log, continue with the next attempt.
ProviderError ==
    /\ pc = "getMove"
    /\ attempts < MaxAttempts
    /\ attempts' = attempts + 1
    /\ UNCHANGED <<pc, playerIndex, moveCount, currentPlayer, game,
                   moveHistory, lastMove, lastInvalidMove, rows,
                   gameStateChannel, obs, pubLog, gameNo, appliedBy, lastAcq,
                   turnStart>>

\* getMove returns a move that validateAndApplyMove rejects.
MoveRejected(move) ==
    /\ pc = "getMove"
    /\ attempts < MaxAttempts
    /\ ~Accepts(game, move)
    /\ lastInvalidMove' = move
    /\ attempts' = attempts + 1
    /\ UNCHANGED <<pc, playerIndex, moveCount, currentPlayer, game,
                   moveHistory, lastMove, rows, gameStateChannel, obs,
                   pubLog, gameNo, appliedBy, lastAcq,
                   turnStart>>

\* getMove returns a move that validateAndApplyMove applies; makeMove
\* records it and calls saveGameState(player, move, "").
MoveApplied(move, out) ==
    /\ pc = "getMove"
    /\ attempts < MaxAttempts
    /\ Accepts(game, move)
    /\ out \in OutcomesAfter(game)
    /\ game' = MoveStr(game, move, out)
    /\ lastMove' = move
    /\ moveHistory' = AppendMove(moveHistory, move)
    /\ appliedBy' = Append(appliedBy, currentPlayer)
    /\ pc' = "save"
    /\ UNCHANGED <<playerIndex, moveCount, currentPlayer, attempts,
                   lastInvalidMove, rows, gameStateChannel, obs, pubLog,
                   gameNo, lastAcq,
                   turnStart>>

\* getOpenAIMove gets a reply without error whose Choices is empty:
\* resp.Choices[0] is out of range and the goroutine of playGame panics,
\* which ends the process.
OpenAINoChoices ==
    /\ pc = "getMove"
    /\ attempts < MaxAttempts
    /\ currentPlayer = "openai"
    /\ pc' = "panic"
    /\ UNCHANGED <<playerIndex, moveCount, currentPlayer, game, moveHistory,
                   lastMove, attempts, lastInvalidMove, rows,
                   gameStateChannel, obs, pubLog, gameNo, appliedBy, lastAcq,
                   turnStart>>

\* The attempts loop ends: makeMove returns "failed to get a valid move
\* after 3 attempts".
Exhausted ==
    /\ pc = "getMove"
    /\ attempts >= MaxAttempts
    /\ lastAcq' = [slot |-> currentPlayer, result |-> "exhausted"]
    /\ pc' = "cooldown"
    /\ UNCHANGED <<playerIndex, moveCount, currentPlayer, game, moveHistory,
                   lastMove, attempts, lastInvalidMove, rows,
                   gameStateChannel, obs, pubLog, gameNo, appliedBy,
                   turnStart>>

\* The row db.Exec inserts for a snapshot; id is AUTOINCREMENT.
Row(player, move, outcome) ==
    [id |-> Len(rows) + 1, fen |-> FEN(game), last_move |-> move,
     last_player |-> player, move_history |-> Join(moveHistory, ","),
     game_outcome |-> outcome, gameNo |-> gameNo]

\* saveGameState from makeMove: the INSERT succeeds.
SaveOk ==
    /\ pc = "save"
    /\ rows' = Append(rows, Row(currentPlayer, lastMove, ""))
    /\ pc' = "savePublish"
    /\ UNCHANGED <<playerIndex, moveCount, currentPlayer, game, moveHistory,
                   lastMove, attempts, lastInvalidMove, gameStateChannel,
                   obs, pubLog, gameNo, appliedBy, lastAcq,
                   turnStart>>

\* saveGameState from makeMove: the INSERT fails; saveGameState returns
\* the error before its send, and makeMove returns it to playGame.
SaveFail ==
    /\ pc = "save"
    /\ lastAcq' = [slot |-> currentPlayer, result |-> "saveFailed"]
    /\ pc' = "cooldown"
    /\ UNCHANGED <<playerIndex, moveCount, currentPlayer, game, moveHistory,
                   lastMove, attempts, lastInvalidMove, rows,
                   gameStateChannel, obs, pubLog, gameNo, appliedBy,
                   turnStart>>

\* saveGameState from makeMove: the send after the INSERT; returns nil.
SavePublish ==
    /\ pc = "savePublish"
    /\ Publish(GameState(FEN(game), lastMove, currentPlayer, moveHistory, ""))
    /\ pc' = "advance"
    /\ UNCHANGED <<playerIndex, moveCount, currentPlayer, game, moveHistory,
                   lastMove, attempts, lastInvalidMove, rows, obs, gameNo,
                   appliedBy, lastAcq,
                   turnStart>>

\* makeMove returned nil: advance the player, build currentState, send.
Advance ==
    /\ pc = "advance"
    /\ playerIndex' = NextPlayerIndex(playerIndex)
    /\ moveCount' = moveCount + 1
    /\ Publish(GameState(FEN(game), lastMove, currentPlayer, moveHistory,
                         game.outcome))
    /\ lastAcq' = [slot |-> currentPlayer, result |-> "applied"]
    /\ pc' = "delay"
    /\ UNCHANGED <<currentPlayer, game, moveHistory, lastMove, attempts,
                   lastInvalidMove, rows, obs, gameNo, appliedBy,
                   turnStart>>

\* time.Sleep(3 * time.Second) at the end of the loop body.
Delay ==
    /\ pc = "delay"
    /\ pc' = "loop"
    /\ UNCHANGED <<playerIndex, moveCount, currentPlayer, game, moveHistory,
                   lastMove, attempts, lastInvalidMove, rows,
                   gameStateChannel, obs, pubLog, gameNo, appliedBy, lastAcq,
                   turnStart>>

\* makeMove returned an error: log, time.Sleep(5 * time.Second), continue.
Cooldown ==
    /\ pc = "cooldown"
    /\ playerIndex' = ErrContinueIndex(playerIndex)
    /\ pc' = "loop"
    /\ UNCHANGED <<moveCount, currentPlayer, game, moveHistory, lastMove,
                   attempts, lastInvalidMove, rows, gameStateChannel, obs,
                   pubLog, gameNo, appliedBy, lastAcq,
                   turnStart>>

\* The loop condition fails: "Game over", on to the final save.
GameOver ==
    /\ pc = "loop"
    /\ game.outcome # NoOutcome
    /\ pc' = "final"
    /\ UNCHANGED <<playerIndex, moveCount, currentPlayer, game, moveHistory,
                   lastMove, attempts, lastInvalidMove, rows,
                   gameStateChannel, obs, pubLog, gameNo, appliedBy, lastAcq,
                   turnStart>>

\* saveGameState(players[playerIndex], lastMove, outcome): INSERT succeeds.
FinalSaveOk ==
    /\ pc = "final"
    /\ rows' = Append(rows, Row(players[playerIndex + 1], lastMove,
                                game.outcome))
    /\ pc' = "finalPublish"
    /\ UNCHANGED <<playerIndex, moveCount, currentPlayer, game, moveHistory,
                   lastMove, attempts, lastInvalidMove, gameStateChannel,
                   obs, pubLog, gameNo, appliedBy, lastAcq,
                   turnStart>>

\* The final INSERT fails: the error is logged, nothing is sent.
FinalSaveFail ==
    /\ pc = "final"
    /\ pc' = "reset"
    /\ UNCHANGED <<playerIndex, moveCount, currentPlayer, game, moveHistory,
                   lastMove, attempts, lastInvalidMove, rows,
                   gameStateChannel, obs, pubLog, gameNo, appliedBy, lastAcq,
                   turnStart>>

\* The send of the final saveGameState.
FinalPublish ==
    /\ pc = "finalPublish"
    /\ Publish(GameState(FEN(game), lastMove, players[playerIndex + 1],
                         moveHistory, game.outcome))
    /\ pc' = "reset"
    /\ UNCHANGED <<playerIndex, moveCount, currentPlayer, game, moveHistory,
                   lastMove, attempts, lastInvalidMove, rows, obs, gameNo,
                   appliedBy, lastAcq,
                   turnStart>>

\* initGame(); playGame(): a new game and a new frame of playGame.
Restart ==
    /\ pc = "reset"
    /\ gameNo < MaxGames
    /\ game' = NewGame
    /\ moveHistory' = EmptyHistory
    /\ lastMove' = ""
    /\ playerIndex' = 0
    /\ moveCount' = 0
    /\ currentPlayer' = ""
    /\ gameNo' = gameNo + 1
    /\ appliedBy' = <<>>
    /\ lastAcq' = [slot |-> "", result |-> "none"]
    /\ pc' = "loop"
    /\ UNCHANGED <<attempts, lastInvalidMove, rows, gameStateChannel, obs,
                   pubLog,
                   turnStart>>

\* ------------------------------------------------- the observer tasks ---
\* A GET on /api/chess-game-state: the stream writer starts its loop.
Attach(o) ==
    /\ Alive
    /\ obs[o].status = "none"
    /\ obs' = [obs EXCEPT ![o].status = "attached",
                          ![o].attachedAt = Len(pubLog)]
    /\ UNCHANGED <<loopVars, gameStateChannel>>

\* case gameState, ok := <-gameStateChannel: marshal, write, flush.
Receive(o) ==
    /\ Alive
    /\ obs[o].status = "attached"
    /\ gameStateChannel # <<>>
    /\ gameStateChannel' = Rest(gameStateChannel)
    /\ obs' = [obs EXCEPT ![o].delivered =
                              Append(@, Front(gameStateChannel))]
    /\ UNCHANGED loopVars

\* The remote peer goes away; the task is still in its select.
PeerDisconnect(o) ==
    /\ Alive
    /\ obs[o].status = "attached"
    /\ obs' = [obs EXCEPT ![o].status = "peerGone"]
    /\ UNCHANGED <<loopVars, gameStateChannel>>

\* The task of a departed peer receives: the write or flush fails and the
\* task returns, or the bytes are still buffered and it loops on.
ReceiveAfterDisconnect(o, writeFails) ==
    /\ Alive
    /\ obs[o].status = "peerGone"
    /\ gameStateChannel # <<>>
    /\ gameStateChannel' = Rest(gameStateChannel)
    /\ obs' = [obs EXCEPT ![o].lost = Append(@, Front(gameStateChannel)),
                          ![o].status = IF writeFails THEN "stopped" ELSE @]
    /\ UNCHANGED loopVars

\* case <-done: the context of the departed peer's request is done; the
\* task returns.
Done(o) ==
    /\ Alive
    /\ obs[o].status = "peerGone"
    /\ obs' = [obs EXCEPT ![o].status = "stopped"]
    /\ UNCHANGED <<loopVars, gameStateChannel>>

\* ----------------------------------------------------------------- Next ---
\* The steps of the game loop task (go playGame()) within one game while
\* the store accepts every write.
PlayNext ==
    \/ StartTurn
    \/ ProviderError
    \/ OpenAINoChoices
    \/ \E move \in MoveTexts : MoveRejected(move)
    \/ \E move \in MoveTexts, out \in {NoOutcome, WhiteWon, BlackWon, Draw} :
           MoveApplied(move, out)
    \/ Exhausted
    \/ SaveOk
    \/ SavePublish
    \/ Advance
    \/ Delay
    \/ Cooldown
    \/ GameOver
    \/ FinalSaveOk
    \/ FinalPublish

\* The game loop task within one game.
GameNext ==
    \/ PlayNext
    \/ SaveFail
    \/ FinalSaveFail

\* The game loop task over all its games.
LoopNext ==
    \/ GameNext
    \/ Restart

\* The observer tasks.
ObserverNext ==
    \/ \E o \in Observers : Attach(o)
    \/ \E o \in Observers : Receive(o)
    \/ \E o \in Observers : PeerDisconnect(o)
    \/ \E o \in Observers, writeFails \in BOOLEAN :
           ReceiveAfterDisconnect(o, writeFails)
    \/ \E o \in Observers : Done(o)

\* The server with its observers, followed through the first MaxSends
\* sends of the first game.
Next ==
    \/ (Len(pubLog) < MaxSends /\ GameNext)
    \/ ObserverNext

Spec == Init /\ [][Next]_vars

\* The game loop with no observer connected, followed for MaxGames games.
SpecLoop == Init /\ [][LoopNext]_vars

\* The same while every store write succeeds.
StoreUpNext ==
    \/ PlayNext
    \/ Restart

SpecStoreUp == Init /\ [][StoreUpNext]_vars

\* ---------------------------------------------------------- vocabulary ---
Range(seq) == {seq[i] : i \in 1..Len(seq)}

Terminal(outcome) == outcome \in {WhiteWon, BlackWon, Draw}

\* The snapshots handed to a send so far, in order.
Sent == [i \in 1..Len(pubLog) |-> pubLog[i].snap]

\* The loop is at one of its three sends.
AtSend == pc \in {"savePublish", "advance", "finalPublish"}

\* -------------------------------------------------------------- claims ---

\* C1: two concurrently attached observers receive the same snapshots: a
\* snapshot sent while observers a and b are both attached and reading,
\* once delivered to a, has been delivered to b or is still waiting for b.
C1_IdenticalSubsequence ==
    \A a, b \in Observers :
        (a # b /\ obs[a].status = "attached" /\ obs[b].status = "attached")
        => \A s \in Range(obs[a].delivered) :
               (s.seq > obs[a].attachedAt /\ s.seq > obs[b].attachedAt)
               => (s \in Range(obs[b].delivered)
                   \/ s \in Range(gameStateChannel))

\* C2: a persistence write failure does not affect progression or
\* broadcast: the turn that follows a move whose store write failed goes to
\* the other slot, and that move's snapshot has been sent.
C2_PersistFailureHarmless ==
    (pc = "getMove" /\ lastAcq.result = "saveFailed")
    => /\ currentPlayer # lastAcq.slot
       /\ \E s \in Range(Sent) :
              s.gameNo = gameNo /\ s.MoveHistory = turnStart.moveHistory

\* C3: slots strictly alternate within a game: consecutive applied moves
\* have different movers, and a slot is asked twice in a row only after
\* its acquisition ended with all attempts failed.
C3_SlotsAlternate ==
    /\ \A i \in 1..(Len(appliedBy) - 1) : appliedBy[i] # appliedBy[i + 1]
    /\ (pc = "getMove" /\ lastAcq.slot = currentPlayer)
       => lastAcq.result = "exhausted"

\* C4: when all 3 attempts of a turn fail, no move is applied (position,
\* history and lastMove are as at the start of the turn), nothing is
\* stored and nothing is sent for the turn, the game goes on, and after
\* the cooldown the same slot is asked again.
C4_ExhaustedTurn ==
    LET untouched == /\ game = turnStart.game
                     /\ moveHistory = turnStart.moveHistory
                     /\ lastMove = turnStart.lastMove
                     /\ Len(rows) = turnStart.rows
                     /\ Len(pubLog) = turnStart.sends
    IN  /\ (pc = "getMove" /\ attempts >= MaxAttempts) => untouched
        /\ (pc \in {"cooldown", "loop"} /\ lastAcq.result = "exhausted")
           => /\ untouched
              /\ game.outcome = NoOutcome
              /\ players[playerIndex + 1] = lastAcq.slot
        /\ (pc = "getMove" /\ attempts = 0 /\ lastAcq.result = "exhausted")
           => /\ currentPlayer = lastAcq.slot
              /\ game = turnStart.game

\* C4 witness: a turn has been exhausted and, after the cooldown, the loop
\* has asked the same slot again; the last text of the new turn was
\* rejected by the oracle.
C4_Witness ==
    /\ pc = "getMove"
    /\ lastAcq.result = "exhausted"
    /\ currentPlayer = lastAcq.slot
    /\ attempts = 1
    /\ lastInvalidMove = "z9"

\* C5: a send never blocks the loop and never overfills the backlog: at
\* each of its sends the loop can step whatever the backlog holds, the step
\* moves the loop on, a full backlog is left as it is (the snapshot is
\* dropped), and the backlog never holds more than ChanCap snapshots.
C5_PublishNeverBlocks ==
    /\ [](/\ Len(gameStateChannel) <= ChanCap
          /\ (pc = "savePublish" => ENABLED SavePublish)
          /\ (pc = "advance" => ENABLED Advance)
          /\ (pc = "finalPublish" => ENABLED FinalPublish))
    /\ [][(AtSend /\ pc' # pc)
          => /\ Len(pubLog') = Len(pubLog) + 1
             /\ IF Len(gameStateChannel) >= ChanCap
                THEN gameStateChannel' = gameStateChannel
                ELSE gameStateChannel' =
                         Append(gameStateChannel, pubLog'[Len(pubLog')].snap)
         ]_vars

\* C5 witness: with an observer attached the backlog was full at a send,
\* the snapshot was dropped and the loop has moved on.
C5_Witness ==
    /\ pubLog # <<>>
    /\ ~pubLog[Len(pubLog)].enq
    /\ Len(gameStateChannel) = ChanCap
    /\ pc = "advance"
    /\ \E o \in Observers : obs[o].status = "attached"

\* C6: an observer is delivered only snapshots sent after it attached.
C6_NoBackfill ==
    \A o \in Observers :
        \A s \in Range(obs[o].delivered) : s.seq > obs[o].attachedAt

\* s is a prefix of t.
IsPrefix(s, t) == Len(s) <= Len(t) /\ \A i \in 1..Len(s) : s[i] = t[i]

C8_FinalBeforeReset ==
    pc = "reset"
    => /\ rows # <<>>
       /\ rows[Len(rows)].gameNo = gameNo
       /\ Terminal(rows[Len(rows)].game_outcome)
       /\ Sent # <<>>
       /\ Sent[Len(Sent)].gameNo = gameNo
       /\ Terminal(Sent[Len(Sent)].GameOutcome)

\* C9: per finished game exactly one sent snapshot carries a terminal
\* outcome, and it is the last snapshot sent for that game.
C9_OneTerminalSnapshot ==
    /\ \A i, j \in 1..Len(Sent) :
           (Terminal(Sent[i].GameOutcome) /\ Sent[j].gameNo = Sent[i].gameNo
            /\ j # i)
           => (j < i /\ ~Terminal(Sent[j].GameOutcome))
    /\ pc = "reset"
       => \E i \in 1..Len(Sent) :
              Sent[i].gameNo = gameNo /\ Terminal(Sent[i].GameOutcome)

\* C10: in every snapshot stored or sent, lastMove is the most recently
\* applied move and lastPlayer is the slot that made it, the final
\* snapshot of a game included.
C10_LastMoveAndPlayer ==
    /\ \A i \in 1..Len(Sent) :
           Sent[i].gameNo = gameNo
           => /\ Sent[i].MoveHistory # <<>>
              /\ Sent[i].LastMove = game.moves[Len(Sent[i].MoveHistory)]
              /\ Sent[i].LastPlayer = appliedBy[Len(Sent[i].MoveHistory)]
    /\ pc \in {"savePublish", "finalPublish"}
       => /\ rows[Len(rows)].last_move = game.moves[Len(game.moves)]
          /\ rows[Len(rows)].last_player = appliedBy[Len(appliedBy)]

\* The last element of a non-empty sequence.
Last(seq) == seq[Len(seq)]

\* C11: after N applied moves of the current game the live history holds
\* exactly those N moves and lastMove is the Nth; the history changes only
\* by one appended move or, exactly when a new game starts, by being
\* emptied; every snapshot's moveHistory ends with its lastMove.
C11_HistoryTracksMoves ==
    /\ [](/\ Len(moveHistory) = Len(appliedBy)
          /\ moveHistory = game.moves
          /\ lastMove = IF moveHistory = <<>> THEN "" ELSE Last(moveHistory)
          /\ \A i \in 1..Len(Sent) :
                 /\ Sent[i].MoveHistory # <<>>
                 /\ Last(Sent[i].MoveHistory) = Sent[i].LastMove
          /\ \A i \in 1..Len(rows) :
                 rows[i].gameNo = gameNo
                 => \E n \in 1..Len(moveHistory) :
                        /\ rows[i].move_history =
                               Join(SubSeq(moveHistory, 1, n), ",")
                        /\ rows[i].last_move = moveHistory[n])
    /\ [][/\ gameNo' # gameNo => moveHistory' = <<>>
          /\ gameNo' = gameNo
             => \/ moveHistory' = moveHistory
                \/ /\ Len(moveHistory') = Len(moveHistory) + 1
                   /\ SubSeq(moveHistory', 1, Len(moveHistory)) = moveHistory
                   /\ Len(appliedBy') = Len(appliedBy) + 1
         ]_vars

\* C11 witness: the second move of a game has been applied and its
\* snapshot sent.
C11_Witness ==
    /\ Len(moveHistory) = 2
    /\ lastMove = "e5"
    /\ pubLog # <<>>
    /\ Last(Sent).MoveHistory = <<"e4", "e5">>
    /\ Last(Sent).LastMove = "e5"

C13_DepartedTakesNothing ==
    \A o \in Observers : obs[o].lost = <<>>

\* The sends made for the current game so far.
SentThisGame == {i \in 1..Len(Sent) : Sent[i].gameNo = gameNo}

\* C14: one send per applied move plus one per finished game: between
\* turns a game of N applied moves has had N sends, and N + 1 once its
\* final snapshot is out.
C14_OneSnapshotPerMove ==
    /\ pc = "loop" => Cardinality(SentThisGame) = Len(game.moves)
    /\ pc = "reset" => Cardinality(SentThisGame) = Len(game.moves) + 1

\* C15: one acquisition makes at most 3 requests and applies at most one
\* move, the first the oracle accepts; failed attempts leave position,
\* history and lastMove as they were at the start of the turn.
C15_BoundedAcquisition ==
    /\ [](/\ attempts <= 3
          /\ pc = "getMove"
             => /\ game = turnStart.game
                /\ moveHistory = turnStart.moveHistory
                /\ lastMove = turnStart.lastMove
          /\ pc \in {"save", "savePublish", "advance"}
             => /\ attempts + 1 <= 3
                /\ game.moves = Append(turnStart.game.moves, lastMove)
                /\ moveHistory = Append(turnStart.moveHistory, lastMove))
    /\ [][game' # game
          => \/ gameNo' # gameNo
             \/ /\ pc = "getMove"
                /\ pc' = "save"
                /\ Accepts(game, lastMove')
                /\ game'.moves = Append(game.moves, lastMove')
         ]_vars

\* C15 witness: the third request of a turn, after a provider error and
\* a rejected move, returned a move that was applied.
C15_Witness ==
    /\ pc = "save"
    /\ attempts = 2
    /\ lastInvalidMove = "z9"
    /\ game.moves = Append(turnStart.game.moves, lastMove)

\* C16: the first request of a turn carries no feedback, and the feedback
\* of every later request names a move text the oracle rejected earlier
\* in the turn.
C16_FeedbackNamesRejected ==
    (pc = "getMove" /\ attempts < MaxAttempts)
    => IF attempts = 0
       THEN RetryMessage(Request) = <<>>
       ELSE /\ RetryMessage(Request) # <<>>
            /\ RetryMessage(Request)[2] \in MoveTexts
            /\ ~Accepts(game, RetryMessage(Request)[2])

\* C17: no provider response of any kind crashes the game loop.
C17_NoResponseCrashes ==
    pc # "panic"

\* C18: the game loop never halts: short of the game bound, some step of
\* the loop is always possible.
C18_LoopNeverHalts ==
    \/ pc = "reset" /\ gameNo >= MaxGames
    \/ ENABLED LoopNext

\* C19: every snapshot sent carries the identifier of a stored row, and
\* identifiers strictly increase from one send to the next.
C19_StoreIdentifiers ==
    /\ \A i \in 1..Len(Sent) : \E r \in 1..Len(rows) : rows[r].id = Sent[i].ID
    /\ \A i \in 1..(Len(Sent) - 1) : Sent[i].ID < Sent[i + 1].ID

\* The send indices one observer task has taken from the channel,
\* delivered or not.
Taken(o) == obs[o].delivered \o obs[o].lost

RECURSIVE TakenCount(_)
TakenCount(S) ==
    IF S = {} THEN 0
    ELSE LET o == CHOOSE x \in S : TRUE
         IN  Len(Taken(o)) + TakenCount(S \ {o})

RECURSIVE DeliveredCount(_)
DeliveredCount(S) ==
    IF S = {} THEN 0
    ELSE LET o == CHOOSE x \in S : TRUE
         IN  Len(obs[o].delivered) + DeliveredCount(S \ {o})

EnqueuedSends == {i \in 1..Len(pubLog) : pubLog[i].enq}

\* C20: every enqueued snapshot is taken from the channel by at most one
\* observer task, so the frames delivered over all observers never
\* outnumber the snapshots enqueued.
C20_TakenAtMostOnce ==
    /\ \A o, p \in Observers :
           \A i \in 1..Len(Taken(o)), j \in 1..Len(Taken(p)) :
               (o # p \/ i # j) => Taken(o)[i].seq # Taken(p)[j].seq
    /\ \A o \in Observers :
           \A i \in 1..Len(Taken(o)) : Taken(o)[i].seq \in EnqueuedSends
    /\ TakenCount(Observers) + Len(gameStateChannel) = Cardinality(EnqueuedSends)
    /\ DeliveredCount(Observers) <= Cardinality(EnqueuedSends)

\* C20 witness: two observers read concurrently and every enqueued
\* snapshot has been delivered to one of them.
C20_Witness ==
    /\ \A o \in Observers : obs[o].delivered # <<>>
    /\ DeliveredCount(Observers) = Cardinality(EnqueuedSends)
    /\ Cardinality(EnqueuedSends) = MaxSends

=============================================================================
